---- MODULE Spec2Model ----
(***************************************************************************)
(* A model of the roguelike of src/src/main.rs: the tile map and its       *)
(* generator, entity movement against the map, the renderer and the        *)
(* frame/input loop of main.                                               *)
(***************************************************************************)
EXTENDS Integers, Sequences, FiniteSets, TLC

VARIABLES
    game,           \* main: `game`, the Game (its map)
    objects,        \* main: `objects`, the array of two Objects
    tcod,           \* main: `tcod`, the root console (the window) and the
                    \* offscreen console
    window_closed,  \* main: what tcod.root.window_closed() last answered
    key,            \* handle_keys: `key`, the key wait_for_keypress returned,
                    \* kept until the loop condition is evaluated again
    pc,             \* the position of main in its loop
    reads,          \* keys read since the last root.flush()
    shown,          \* the objects as they were at the last root.flush(),
                    \* <<>> before the first
    call,           \* unit harness: the call made last
    before          \* unit harness: the object as it was before that call

vars == <<game, objects, tcod, window_closed, key, pc, reads, shown, call, before>>

----------------------------------------------------------------------------
(* Constants of main.rs *)

SCREEN_WIDTH == 80
SCREEN_HEIGHT == 50
MAP_WIDTH == 80
\* A map that ends with the last row of the rooms
MAP_HEIGHT_short == 45 - 15
MAP_HEIGHT == 45

\* Color { r, g, b }, as the 24-bit number 0xRRGGBB
Color(r, g, b) == r * 65536 + g * 256 + b

COLOR_DARK_WALL == Color(0, 0, 100)
COLOR_DARK_GROUND == Color(50, 50, 150)
\* tcod::colors
WHITE == Color(255, 255, 255)
YELLOW == Color(255, 255, 0)
BLACK == Color(0, 0, 0)

\* The outcome of a call: a value, or a Rust panic (an index out of a Vec's
\* bounds, which ends the process).
Ok(v) == [panic |-> FALSE, val |-> v]
Panic == [panic |-> TRUE]

----------------------------------------------------------------------------
(* Tile, Rect, Object *)

Tile_empty == [blocked |-> FALSE, block_sight |-> FALSE]
Tile_wall == [blocked |-> TRUE, block_sight |-> TRUE]

Rect_new(x, y, w, h) == [x1 |-> x, y1 |-> y, x2 |-> x + w, y2 |-> y + h]

Object_new(x, y, char, color) == [x |-> x, y |-> y, char |-> char, color |-> color]

\* map[x as usize][y as usize] is in bounds. A negative i32 cast to usize is
\* at least 2^63 and so beyond the length of any Vec.
InBounds(map, x, y) == x \in DOMAIN map /\ y \in DOMAIN map[x]

\* vec![vec![tile; h]; w]
NewMap(w, h, tile) == [x \in 0..(w - 1) |-> [y \in 0..(h - 1) |-> tile]]

Min(a, b) == IF a < b THEN a ELSE b
Max(a, b) == IF a > b THEN a ELSE b

\* A tile_at that clamps the coordinates to the map
tile_at_clamped(g, x, y) ==
    LET cx == Max(0, Min(x, MAP_WIDTH - 1))
        cy == Max(0, Min(y, MAP_HEIGHT - 1))
    IN  IF InBounds(g.map, cx, cy) THEN Ok(g.map[cx][cy]) ELSE Panic

\* Game::tile_at
tile_at(g, x, y) == IF InBounds(g.map, x, y) THEN Ok(g.map[x][y]) ELSE Panic

----------------------------------------------------------------------------
(* Map generation *)

\* The inner loop of create_room: for y in y..y2
RECURSIVE create_room_col(_, _, _, _)
create_room_col(map, x, y, y2) ==
    IF y >= y2 THEN Ok(map)
    ELSE IF ~InBounds(map, x, y) THEN Panic
    ELSE create_room_col([map EXCEPT ![x][y] = Tile_empty], x, y + 1, y2)

\* The outer loop of create_room: for x in x..room.x2
RECURSIVE create_room_from(_, _, _)
create_room_from(map, room, x) ==
    IF x >= room.x2 THEN Ok(map)
    ELSE LET col == create_room_col(map, x, room.y1 + 1, room.y2)
         IN  IF col.panic THEN Panic ELSE create_room_from(col.val, room, x + 1)

\* create_room that runs up to and including x2
create_room_inclusive(map, room) ==
    create_room_from(map, [room EXCEPT !.x2 = @ + 1], room.x1 + 1)

\* create_room that starts at the rectangle's low edge
create_room_from_edge(map, room) == create_room_from(map, room, room.x1)

create_room(map, room) == create_room_from(map, room, room.x1 + 1)

\* The loop of create_h_tunnel: for x in x..hi
RECURSIVE create_h_tunnel_from(_, _, _, _)
create_h_tunnel_from(map, x, hi, y) ==
    IF x >= hi THEN Ok(map)
    ELSE IF ~InBounds(map, x, y) THEN Panic
    ELSE create_h_tunnel_from([map EXCEPT ![x][y] = Tile_empty], x + 1, hi, y)

\* create_h_tunnel without min() and max()
create_h_tunnel_ordered(map, x1, x2, y) == create_h_tunnel_from(map, x1, x2 + 1, y)

create_h_tunnel(map, x1, x2, y) ==
    create_h_tunnel_from(map, Min(x1, x2), Max(x1, x2) + 1, y)

\* The loop of create_v_tunnel: for y in y..hi
RECURSIVE create_v_tunnel_from(_, _, _, _)
create_v_tunnel_from(map, y, hi, x) ==
    IF y >= hi THEN Ok(map)
    ELSE IF ~InBounds(map, x, y) THEN Panic
    ELSE create_v_tunnel_from([map EXCEPT ![x][y] = Tile_empty], y + 1, hi, x)

\* create_v_tunnel that stops before the larger endpoint
create_v_tunnel_exclusive(map, y1, y2, x) ==
    create_v_tunnel_from(map, Min(y1, y2), Max(y1, y2), x)

\* create_v_tunnel without min() and max()
create_v_tunnel_ordered(map, y1, y2, x) == create_v_tunnel_from(map, y1, y2 + 1, x)

create_v_tunnel(map, y1, y2, x) ==
    create_v_tunnel_from(map, Min(y1, y2), Max(y1, y2) + 1, x)

room1 == Rect_new(20, 15, 10, 15)
room2 == Rect_new(50, 15, 10, 15)

\* make_map whose tunnel stops one cell short of the second room
make_map_short_tunnel ==
    LET map0 == NewMap(MAP_WIDTH, MAP_HEIGHT, Tile_wall)
        r1 == create_room(map0, room1)
        r2 == IF r1.panic THEN Panic ELSE create_room(r1.val, room2)
    IN  IF r2.panic THEN Panic ELSE create_h_tunnel(r2.val, 25, 49, 23)

make_map ==
    LET map0 == NewMap(MAP_WIDTH, MAP_HEIGHT, Tile_wall)
        r1 == create_room(map0, room1)
        r2 == IF r1.panic THEN Panic ELSE create_room(r1.val, room2)
    IN  IF r2.panic THEN Panic ELSE create_h_tunnel(r2.val, 25, 55, 23)

\* Game::new
Game_new == IF make_map.panic THEN Panic ELSE Ok([map |-> make_map.val])

----------------------------------------------------------------------------
(* Entity movement *)

\* move_by that commits x and forgets y
move_by_forgets_y(self, g, dx, dy) ==
    LET x == self.x + dx
        y == self.y + dy
        t == tile_at(g, x, y)
    IN  IF t.panic THEN Panic
        ELSE IF ~t.val.blocked THEN Ok([self EXCEPT !.x = x])
        ELSE Ok(self)

\* move_by that does not look at the tile's blocked flag
move_by_unchecked(self, g, dx, dy) ==
    LET x == self.x + dx
        y == self.y + dy
        t == tile_at(g, x, y)
    IN  IF t.panic THEN Panic ELSE Ok([self EXCEPT !.x = x, !.y = y])

\* Object::move_by: the object after the call
move_by(self, g, dx, dy) ==
    LET x == self.x + dx
        y == self.y + dy
        t == tile_at(g, x, y)
    IN  IF t.panic THEN Panic
        ELSE IF ~t.val.blocked THEN Ok([self EXCEPT !.x = x, !.y = y])
        ELSE Ok(self)

----------------------------------------------------------------------------
(* Consoles (tcod::console) as the program uses them *)

Cell(ch, fg, bg) == [ch |-> ch, fg |-> fg, bg |-> bg]

\* Offscreen::new / the root console after init: blank cells, white on black
Console_new(w, h) ==
    [cells |-> [x \in 0..(w - 1) |-> [y \in 0..(h - 1) |-> Cell(" ", WHITE, BLACK)]],
     fore |-> WHITE, back |-> BLACK]

\* Root::initializer()...size(w, h).init(): the root console, windowed
Root_new(w, h) ==
    [cells |-> Console_new(w, h).cells, fore |-> WHITE, back |-> BLACK,
     fullscreen |-> FALSE]

\* A clear that leaves the console as it is
Console_clear_keeps(con) == con

\* Console::clear: every cell blank, in the console's default colours
Console_clear(con) ==
    [con EXCEPT !.cells =
        [x \in DOMAIN con.cells |->
            [y \in DOMAIN con.cells[x] |-> Cell(" ", con.fore, con.back)]]]

\* Object::draw: set_default_foreground, then put_char with BackgroundFlag::None
\* (the cell's background is left as it is)
draw(self, con) ==
    LET c == [con EXCEPT !.fore = self.color]
    IN  IF self.x \in DOMAIN c.cells /\ self.y \in DOMAIN c.cells[self.x]
        THEN [c EXCEPT !.cells[self.x][self.y].ch = self.char,
                       !.cells[self.x][self.y].fg = c.fore]
        ELSE c

\* The first loop of render_all: for object in objects
RECURSIVE draw_all(_, _, _)
draw_all(con, objs, i) ==
    IF i > Len(objs) THEN con
    ELSE draw_all(draw(objs[i], con), objs, i + 1)

\* A tint chosen by the blocked flag
tint_by_blocked(tile) == IF tile.blocked THEN COLOR_DARK_WALL ELSE COLOR_DARK_GROUND

\* The tint render_all gives a tile
tint(tile) == IF tile.block_sight THEN COLOR_DARK_WALL ELSE COLOR_DARK_GROUND

\* The second loop of render_all: set_char_background(.., BackgroundFlag::Set)
\* for every cell of the map
paint(con, g) ==
    [con EXCEPT !.cells =
        [x \in DOMAIN con.cells |->
            [y \in DOMAIN con.cells[x] |->
                IF x < MAP_WIDTH /\ y < MAP_HEIGHT
                THEN [con.cells[x][y] EXCEPT !.bg = tint(g.map[x][y])]
                ELSE con.cells[x][y]]]]

\* blit(&con, (0, 0), (MAP_WIDTH, MAP_HEIGHT), &mut root, (0, 0), 1.0, 1.0)
blit(con, root) ==
    [root EXCEPT !.cells =
        [x \in DOMAIN root.cells |->
            [y \in DOMAIN root.cells[x] |->
                IF x < MAP_WIDTH /\ y < MAP_HEIGHT /\ x \in DOMAIN con.cells
                   /\ y \in DOMAIN con.cells[x]
                THEN con.cells[x][y]
                ELSE root.cells[x][y]]]]

\* render_all: the Tcod after the call
render_all(t, g, objs) ==
    LET con == paint(draw_all(t.con, objs, 1), g)
    IN  [t EXCEPT !.con = con, !.root = blit(con, t.root)]

----------------------------------------------------------------------------
(* Keys *)

KeyCodes == {"Up", "Down", "Left", "Right", "Enter", "Escape", "Other"}
Keys == [code : KeyCodes, alt : BOOLEAN]
NoKey == [code |-> "None", alt |-> FALSE]

\* handle_keys whose Enter arm does not ask for alt
handle_keys_enter_any(t, g, player, k) ==
    CASE k.code = "Up" -> [exit |-> FALSE, tcod |-> t, player |-> move_by(player, g, 0, -1)]
      [] k.code = "Down" -> [exit |-> FALSE, tcod |-> t, player |-> move_by(player, g, 0, 1)]
      [] k.code = "Left" -> [exit |-> FALSE, tcod |-> t, player |-> move_by(player, g, -1, 0)]
      [] k.code = "Right" -> [exit |-> FALSE, tcod |-> t, player |-> move_by(player, g, 1, 0)]
      [] k.code = "Enter" ->
            [exit |-> FALSE,
             tcod |-> [t EXCEPT !.root.fullscreen = ~t.root.fullscreen],
             player |-> Ok(player)]
      [] k.code = "Escape" -> [exit |-> TRUE, tcod |-> t, player |-> Ok(player)]
      [] OTHER -> [exit |-> FALSE, tcod |-> t, player |-> Ok(player)]

\* handle_keys whose Escape arm does not return true
handle_keys_escape_stays(t, g, player, k) ==
    CASE k.code = "Up" -> [exit |-> FALSE, tcod |-> t, player |-> move_by(player, g, 0, -1)]
      [] k.code = "Down" -> [exit |-> FALSE, tcod |-> t, player |-> move_by(player, g, 0, 1)]
      [] k.code = "Left" -> [exit |-> FALSE, tcod |-> t, player |-> move_by(player, g, -1, 0)]
      [] k.code = "Right" -> [exit |-> FALSE, tcod |-> t, player |-> move_by(player, g, 1, 0)]
      [] k.code = "Enter" /\ k.alt ->
            [exit |-> FALSE,
             tcod |-> [t EXCEPT !.root.fullscreen = ~t.root.fullscreen],
             player |-> Ok(player)]
      [] OTHER -> [exit |-> FALSE, tcod |-> t, player |-> Ok(player)]

\* handle_keys with the deltas of Up and Down exchanged
handle_keys_up_is_down(t, g, player, k) ==
    CASE k.code = "Up" -> [exit |-> FALSE, tcod |-> t, player |-> move_by(player, g, 0, 1)]
      [] k.code = "Down" -> [exit |-> FALSE, tcod |-> t, player |-> move_by(player, g, 0, -1)]
      [] k.code = "Left" -> [exit |-> FALSE, tcod |-> t, player |-> move_by(player, g, -1, 0)]
      [] k.code = "Right" -> [exit |-> FALSE, tcod |-> t, player |-> move_by(player, g, 1, 0)]
      [] k.code = "Enter" /\ k.alt ->
            [exit |-> FALSE,
             tcod |-> [t EXCEPT !.root.fullscreen = ~t.root.fullscreen],
             player |-> Ok(player)]
      [] k.code = "Escape" -> [exit |-> TRUE, tcod |-> t, player |-> Ok(player)]
      [] OTHER -> [exit |-> FALSE, tcod |-> t, player |-> Ok(player)]

\* handle_keys, after wait_for_keypress returned k: the exit flag, the Tcod
\* and the player after the match
handle_keys(t, g, player, k) ==
    CASE k.code = "Up" -> [exit |-> FALSE, tcod |-> t, player |-> move_by(player, g, 0, -1)]
      [] k.code = "Down" -> [exit |-> FALSE, tcod |-> t, player |-> move_by(player, g, 0, 1)]
      [] k.code = "Left" -> [exit |-> FALSE, tcod |-> t, player |-> move_by(player, g, -1, 0)]
      [] k.code = "Right" -> [exit |-> FALSE, tcod |-> t, player |-> move_by(player, g, 1, 0)]
      [] k.code = "Enter" /\ k.alt ->
            [exit |-> FALSE,
             tcod |-> [t EXCEPT !.root.fullscreen = ~t.root.fullscreen],
             player |-> Ok(player)]
      [] k.code = "Escape" -> [exit |-> TRUE, tcod |-> t, player |-> Ok(player)]
      [] OTHER -> [exit |-> FALSE, tcod |-> t, player |-> Ok(player)]

----------------------------------------------------------------------------
(* main *)

NoCall == [fn |-> "none"]

Init ==
    /\ game = IF Game_new.panic THEN [map |-> <<>>] ELSE Game_new.val
    /\ objects = <<Object_new(25, 23, "@", WHITE), Object_new(55, 23, "X", YELLOW)>>
    /\ tcod = [root |-> Root_new(SCREEN_WIDTH, SCREEN_HEIGHT),
               con |-> Console_new(MAP_WIDTH, MAP_HEIGHT)]
    /\ window_closed = FALSE
    /\ key = NoKey
    /\ pc = IF Game_new.panic THEN "panic" ELSE "while"
    /\ reads = 0
    /\ shown = <<>>
    /\ call = NoCall
    /\ before = objects[1]

\* The loop condition without its negation
While_inverted ==
    /\ pc = "while"
    /\ \E closed \in BOOLEAN :
        /\ window_closed' = closed
        /\ pc' = IF closed THEN "clear" ELSE "done"
    /\ key' = NoKey
    /\ UNCHANGED <<game, objects, tcod, reads, shown, call, before>>

\* while !tcod.root.window_closed(): the window answers either way
While ==
    /\ pc = "while"
    /\ \E closed \in BOOLEAN :
        /\ window_closed' = closed
        /\ pc' = IF closed THEN "done" ELSE "clear"
    /\ key' = NoKey
    /\ UNCHANGED <<game, objects, tcod, reads, shown, call, before>>

\* tcod.con.clear()
Clear ==
    /\ pc = "clear"
    /\ tcod' = [tcod EXCEPT !.con = Console_clear(tcod.con)]
    /\ pc' = "render_all"
    /\ UNCHANGED <<game, objects, window_closed, key, reads, shown, call, before>>

\* render_all(&mut tcod, &game, &objects)
RenderAll ==
    /\ pc = "render_all"
    /\ tcod' = render_all(tcod, game, objects)
    /\ pc' = "flush"
    /\ UNCHANGED <<game, objects, window_closed, key, reads, shown, call, before>>

\* tcod.root.flush()
Flush ==
    /\ pc = "flush"
    /\ reads' = 0
    /\ shown' = objects
    /\ pc' = "handle_keys"
    /\ UNCHANGED <<game, objects, tcod, window_closed, key, call, before>>

\* handle_keys: let key = tcod.root.wait_for_keypress(true)
WaitForKeypress ==
    /\ pc = "handle_keys"
    /\ \E k \in Keys : key' = k
    /\ reads' = reads + 1
    /\ pc' = "match"
    /\ UNCHANGED <<game, objects, tcod, window_closed, shown, call, before>>

\* MatchKey that goes back to waiting for a key instead of to the loop's top
MatchKey_rereads ==
    /\ pc = "match"
    /\ LET r == handle_keys(tcod, game, objects[1], key)
       IN  IF r.player.panic
           THEN /\ pc' = "panic"
                /\ UNCHANGED <<objects, tcod>>
           ELSE /\ objects' = [objects EXCEPT ![1] = r.player.val]
                /\ tcod' = r.tcod
                /\ pc' = IF r.exit THEN "done" ELSE "handle_keys"
    /\ UNCHANGED <<game, window_closed, key, reads, shown, call, before>>

\* MatchKey that refuses a move onto the cell of the second object
MatchKey_bumps ==
    /\ pc = "match"
    /\ LET r == handle_keys(tcod, game, objects[1], key)
       IN  IF r.player.panic
           THEN /\ pc' = "panic"
                /\ UNCHANGED <<objects, tcod>>
           ELSE /\ objects' = IF r.player.val.x = objects[2].x /\ r.player.val.y = objects[2].y
                              THEN objects
                              ELSE [objects EXCEPT ![1] = r.player.val]
                /\ tcod' = r.tcod
                /\ pc' = IF r.exit THEN "done" ELSE "while"
    /\ UNCHANGED <<game, window_closed, key, reads, shown, call, before>>

\* MatchKey that records in the map that the player's tile is occupied
MatchKey_occupies ==
    /\ pc = "match"
    /\ LET r == handle_keys(tcod, game, objects[1], key)
       IN  IF r.player.panic
           THEN /\ pc' = "panic"
                /\ UNCHANGED <<objects, tcod, game>>
           ELSE /\ objects' = [objects EXCEPT ![1] = r.player.val]
                /\ tcod' = r.tcod
                /\ game' = [game EXCEPT !.map[r.player.val.x][r.player.val.y].blocked = TRUE]
                /\ pc' = IF r.exit THEN "done" ELSE "while"
    /\ UNCHANGED <<window_closed, key, reads, shown, call, before>>

\* handle_keys: match key { .. }, and main: if exit { break }
MatchKey ==
    /\ pc = "match"
    /\ LET r == handle_keys(tcod, game, objects[1], key)
       IN  IF r.player.panic
           THEN /\ pc' = "panic"
                /\ UNCHANGED <<objects, tcod>>
           ELSE /\ objects' = [objects EXCEPT ![1] = r.player.val]
                /\ tcod' = r.tcod
                /\ pc' = IF r.exit THEN "done" ELSE "while"
    /\ UNCHANGED <<game, window_closed, key, reads, shown, call, before>>

Next == While \/ Clear \/ RenderAll \/ Flush \/ WaitForKeypress \/ MatchKey

Spec == Init /\ [][Next]_vars

----------------------------------------------------------------------------
(* The functions on their own: tunnels carved into, and objects moved on,  *)
(* every small map                                                         *)

\* The size of the small maps
UnitWidth == 3
UnitHeight == 2

UnitMaps == [0..(UnitWidth - 1) -> [0..(UnitHeight - 1) -> {Tile_wall, Tile_empty}]]

\* The deltas handle_keys passes to move_by
Deltas == {<<0, -1>>, <<0, 1>>, <<-1, 0>>, <<1, 0>>}

UnitInit ==
    /\ tcod = [root |-> Root_new(1, 1), con |-> Console_new(1, 1)]
    /\ window_closed = FALSE
    /\ key = NoKey
    /\ pc = "unit"
    /\ reads = 0
    /\ shown = <<>>
    /\ call = NoCall

\* Any small map, and an object at its corner
TunnelInit ==
    /\ UnitInit
    /\ \E m \in UnitMaps : game = [map |-> m]
    /\ objects = <<Object_new(0, 0, "@", WHITE)>>
    /\ before = objects[1]

\* Any small map or the generated map, and an object on any of its cells
MoveInit ==
    /\ UnitInit
    /\ \E m \in UnitMaps \cup {make_map.val} :
        /\ game = [map |-> m]
        /\ \E x \in DOMAIN m : \E y \in DOMAIN m[x] :
                objects = <<Object_new(x, y, "@", WHITE)>>
    /\ before = objects[1]

\* A call that carved the map, or panicked
Carved(fn, a, b, c, r) ==
    /\ call' = [fn |-> fn, a |-> a, b |-> b, c |-> c, panic |-> r.panic]
    /\ game' = IF r.panic THEN game ELSE [game EXCEPT !.map = r.val]
    /\ pc' = IF r.panic THEN "panic" ELSE "carved"
    /\ UNCHANGED <<objects, tcod, window_closed, key, reads, shown, before>>

\* The call has returned; the map it left is there for the next call
CarveReturn ==
    /\ pc = "carved"
    /\ pc' = "unit"
    /\ call' = NoCall
    /\ UNCHANGED <<game, objects, tcod, window_closed, key, reads, shown, before>>

\* create_h_tunnel(&mut map, x1, x2, y), one column beyond the map included
CallCreateHTunnel ==
    /\ pc = "unit"
    /\ \E x1 \in 0..UnitWidth, x2 \in 0..UnitWidth, y \in 0..UnitHeight :
            Carved("create_h_tunnel", x1, x2, y, create_h_tunnel(game.map, x1, x2, y))

\* create_v_tunnel(&mut map, y1, y2, x), one row beyond the map included
CallCreateVTunnel ==
    /\ pc = "unit"
    /\ \E y1 \in 0..UnitHeight, y2 \in 0..UnitHeight, x \in 0..UnitWidth :
            Carved("create_v_tunnel", y1, y2, x, create_v_tunnel(game.map, y1, y2, x))

\* object.move_by(&game, dx, dy)
CallMoveBy ==
    /\ pc = "unit"
    /\ \E d \in Deltas :
        LET r == move_by(objects[1], game, d[1], d[2])
        IN  /\ call' = [fn |-> "move_by", a |-> d[1], b |-> d[2], c |-> 0,
                        panic |-> r.panic]
            /\ objects' = IF r.panic THEN objects ELSE [objects EXCEPT ![1] = r.val]
            /\ pc' = IF r.panic THEN "panic" ELSE "unit"
    /\ before' = objects[1]
    /\ UNCHANGED <<game, tcod, window_closed, key, reads, shown>>

\* The cells of the generated map whose tiles the rendering harness varies:
\* PatchWidth cells of row 23, from the start cell of the player to the right
PatchWidth == 3
Patch == {<<25 + i, 23>> : i \in 0 .. PatchWidth - 1}

\* Every value of the Tile struct
Tiles == [blocked : BOOLEAN, block_sight : BOOLEAN]

\* The generated map with the tiles of the patch replaced
Patched(m, f) ==
    [x \in DOMAIN m |->
        [y \in DOMAIN m[x] |-> IF <<x, y>> \in Patch THEN f[<<x, y>>] ELSE m[x][y]]]

\* Fresh consoles, the generated map with any tiles on the patch, the player on
\* any cell of the patch and the second entity on its first cell
RenderInit ==
    /\ tcod = [root |-> Root_new(SCREEN_WIDTH, SCREEN_HEIGHT),
               con |-> Console_new(MAP_WIDTH, MAP_HEIGHT)]
    /\ window_closed = FALSE
    /\ key = NoKey
    /\ pc = "unit"
    /\ reads = 0
    /\ shown = <<>>
    /\ call = NoCall
    /\ \E f \in [Patch -> Tiles] : game = [map |-> Patched(make_map.val, f)]
    /\ \E p \in Patch :
            objects = <<Object_new(p[1], p[2], "@", WHITE),
                        Object_new(25, 23, "X", YELLOW)>>
    /\ before = objects[1]

\* render_all(&mut tcod, &game, &objects)
CallRenderAll ==
    /\ pc = "unit"
    /\ tcod' = render_all(tcod, game, objects)
    /\ call' = [fn |-> "render_all", a |-> 0, b |-> 0, c |-> 0, panic |-> FALSE]
    /\ pc' = "rendered"
    /\ UNCHANGED <<game, objects, window_closed, key, reads, shown, before>>

RenderNext == CallRenderAll
RenderSpec == RenderInit /\ [][RenderNext]_vars

TunnelNext == CallCreateHTunnel \/ CallCreateVTunnel \/ CarveReturn
TunnelSpec == TunnelInit /\ [][TunnelNext]_vars

MoveNext == CallMoveBy
MoveSpec == MoveInit /\ [][MoveNext]_vars

----------------------------------------------------------------------------
(* Properties *)

Pos(o) == <<o.x, o.y>>

\* The destination of the call just made is a cell of the map
DestInBounds(o, c) == InBounds(game.map, o.x + c.a, o.y + c.b)
DestTile(o, c) == game.map[o.x + c.a][o.y + c.b]

\* C1: a move_by whose destination tile (x+dx, y+dy) is not blocked sets the
\* object's position to exactly (x+dx, y+dy), on every small map and on the
\* generated map, from every cell and for each of the four deltas.
C1_MoveByUnblocked ==
    [][(call'.fn = "move_by" /\ DestInBounds(objects[1], call')
            /\ ~DestTile(objects[1], call').blocked)
        => /\ ~call'.panic
           /\ Pos(objects'[1]) = <<objects[1].x + call'.a, objects[1].y + call'.b>>]_vars

\* C1 witness: on the generated map the player at (25,23) was moved by (+1,0)
\* and stands at (26,23).
C1_Witness ==
    /\ game.map = make_map.val
    /\ call.fn = "move_by" /\ call.a = 1 /\ call.b = 0
    /\ Pos(before) = <<25, 23>>
    /\ Pos(objects[1]) = <<26, 23>>

\* C2: a move_by whose destination tile is blocked changes nothing (the
\* object, the map and the rest of the state stay as they were) and does not
\* panic; so it is with every repetition of it.
C2_MoveByBlocked ==
    [][(call'.fn = "move_by" /\ DestInBounds(objects[1], call')
            /\ DestTile(objects[1], call').blocked)
        => /\ ~call'.panic
           /\ UNCHANGED <<game, objects, tcod, window_closed, key, pc, reads, shown>>]_vars

\* C2 witness: a move_by against a blocked destination was made and the object
\* is where it was before the call, facing the same blocked tile still.
C2_Witness ==
    /\ call.fn = "move_by" /\ ~call.panic
    /\ DestInBounds(before, call) /\ DestTile(before, call).blocked
    /\ objects[1] = before
    /\ DestTile(objects[1], call).blocked

\* The layout the map is said to have: the inside of the two rooms and the
\* tunnel are open, everything else is wall.
LayoutOpen(x, y) ==
    \/ (21 <= x /\ x <= 29 /\ 16 <= y /\ y <= 29)
    \/ (51 <= x /\ x <= 59 /\ 16 <= y /\ y <= 29)
    \/ (25 <= x /\ x <= 55 /\ y = 23)

LayoutMap ==
    [x \in 0..79 |-> [y \in 0..44 |->
        IF LayoutOpen(x, y)
        THEN [blocked |-> FALSE, block_sight |-> FALSE]
        ELSE [blocked |-> TRUE, block_sight |-> TRUE]]]

\* C3: the 80x45 map of the game is open (unblocked, not sight-blocking)
\* exactly inside room (20,15,10,15), inside room (50,15,10,15) and on the
\* tunnel 25..55 at y = 23, and wall everywhere else; blocked equals
\* block_sight on every tile.
C3_MapLayout ==
    pc # "panic" =>
        /\ game.map = LayoutMap
        /\ ~game.map[25][23].blocked /\ ~game.map[55][23].blocked
        /\ ~game.map[35][23].blocked
        /\ game.map[0][0].blocked /\ game.map[35][10].blocked

\* C3 witness: the game was created and the loop is running on its map.
C3_Witness ==
    /\ pc = "flush"
    /\ ~game.map[35][23].blocked /\ game.map[35][10].blocked
    /\ game.map[79][44].block_sight

\* C4 as stated: with the player at (25,23) an Up key leaves it at (25,23).
C4_Original ==
    [][(pc = "match" /\ key.code = "Up" /\ Pos(objects[1]) = <<25, 23>>)
        => Pos(objects'[1]) = <<25, 23>>]_vars

\* C4, amended: on the generated map tile (25,22) is not blocked (it is
\* inside room (20,15,10,15)), so with the player at (25,23) an Up key moves
\* it to (25,22); an Up key leaves the player where it is when the tile above
\* is blocked, as it is at (25,16) under the room's top wall.
C4_UpFromStart ==
    [][/\ (pc = "match" /\ key.code = "Up" /\ Pos(objects[1]) = <<25, 23>>)
            => (~game.map[25][22].blocked /\ Pos(objects'[1]) = <<25, 22>>)
       /\ (pc = "match" /\ key.code = "Up" /\ Pos(objects[1]) = <<25, 16>>)
            => (game.map[25][15].blocked /\ Pos(objects'[1]) = <<25, 16>>)]_vars

\* C4 witness: the frame showed the player at (25,23), an Up key was read and
\* handled, and the player stands at (25,22).
C4_Witness ==
    /\ pc = "while" /\ key.code = "Up" /\ reads = 1
    /\ shown # <<>> /\ Pos(shown[1]) = <<25, 23>>
    /\ Pos(objects[1]) = <<25, 22>>

\* The rooms make_map places, and the cells on a room's perimeter
Rooms == {room1, room2}
Perimeter(room) ==
    {c \in (room.x1..room.x2) \X (room.y1..room.y2) :
        c[1] \in {room.x1, room.x2} \/ c[2] \in {room.y1, room.y2}}

\* C5 as stated: every perimeter cell of every room is blocked, always.
C5_Original ==
    pc # "panic" =>
        \A room \in Rooms : \A c \in Perimeter(room) : game.map[c[1]][c[2]].blocked

\* C5, amended: every perimeter cell of every room is blocked, in the map
\* make_map returns and ever after, except the two cells where the tunnel
\* crosses a room's wall, (30,23) and (50,23), which are open.
C5_RoomBorder ==
    pc # "panic" =>
        \A room \in Rooms : \A c \in Perimeter(room) :
            game.map[c[1]][c[2]].blocked <=> c \notin {<<30, 23>>, <<50, 23>>}

\* C5 witness: the player stands in the breach of room 1's wall, between two
\* wall cells of that perimeter.
C5_Witness ==
    /\ pc = "while" /\ Pos(objects[1]) = <<30, 23>>
    /\ game.map[30][22].blocked /\ game.map[30][24].blocked

\* C6: carving a tunnel with its two end coordinates exchanged gives the
\* same map: the map a create_h_tunnel(a, b, c) call left is the map
\* create_h_tunnel(b, a, c) makes of the map before the call, and likewise
\* for create_v_tunnel, for all a, b, c within the map.
C6_TunnelOrder ==
    [][/\ (call'.fn = "create_h_tunnel" /\ InBounds(game.map, call'.a, call'.c)
            /\ InBounds(game.map, call'.b, call'.c))
            => (~call'.panic
                /\ create_h_tunnel(game.map, call'.b, call'.a, call'.c) = Ok(game'.map))
       /\ (call'.fn = "create_v_tunnel" /\ InBounds(game.map, call'.c, call'.a)
            /\ InBounds(game.map, call'.c, call'.b))
            => (~call'.panic
                /\ create_v_tunnel(game.map, call'.b, call'.a, call'.c) = Ok(game'.map))]_vars

\* C6 witness: a horizontal tunnel was carved from a higher x1 down to a
\* lower x2, and both its ends are open while a cell off its row is wall.
C6_Witness ==
    /\ call.fn = "create_h_tunnel" /\ ~call.panic /\ call.a > call.b + 1
    /\ game.map[call.a][call.c] = Tile_empty
    /\ game.map[call.b][call.c] = Tile_empty
    /\ \E y \in DOMAIN game.map[call.a] : game.map[call.a][y] = Tile_wall

\* C7: when the key read is Escape, with or without alt, the step that
\* handles it ends the loop (no clear, render, present, read or move comes
\* with it), and the ended loop takes no further step.
C7_EscapeExits ==
    [][/\ (pc = "match" /\ key.code = "Escape")
            => (pc' = "done"
                /\ UNCHANGED <<game, objects, tcod, window_closed, reads, shown>>)
       /\ (pc = "done" => UNCHANGED vars)]_vars

\* C7 witness: the loop has ended on an Escape with alt held, the one key read
\* since the frame before it.
C7_Witness ==
    /\ pc = "done" /\ key.code = "Escape" /\ key.alt
    /\ reads = 1 /\ ~window_closed

\* C8: when the window answers that it is closed at the loop condition, the
\* loop ends in that step: nothing is cleared, rendered, presented, read or
\* moved; and the window is never found closed with the loop still running.
C8_CloseExits ==
    /\ [](window_closed => pc = "done")
    /\ [][(pc = "while" /\ window_closed')
            => (pc' = "done" /\ UNCHANGED <<game, objects, tcod, reads, shown>>)]_vars

\* C8 witness: the loop has ended on a closed window, after a frame was
\* presented and a key was read and handled.
C8_Witness ==
    /\ pc = "done" /\ window_closed
    /\ reads = 1 /\ shown # <<>> /\ Pos(objects[1]) # Pos(shown[1])

\* The steps of the loop in their order
LoopOrder ==
    {<<"while", "clear">>, <<"clear", "render_all">>, <<"render_all", "flush">>,
     <<"flush", "handle_keys">>, <<"handle_keys", "match">>, <<"match", "while">>,
     <<"while", "done">>, <<"match", "done">>}

Abs(n) == IF n < 0 THEN -n ELSE n
Steps(o1, o2) == Abs(o1.x - o2.x) + Abs(o1.y - o2.y)

\* C9: the loop goes clear, render, present, wait for a key, act; every
\* presentation but the first comes after exactly one key read since the
\* presentation before it, with the player at most one grid step from where
\* that frame was taken; only the act moves an object.
C9_OneKeyPerFrame ==
    /\ [](reads <= 1)
    /\ [][/\ <<pc, pc'>> \in LoopOrder
          /\ (pc = "flush") =>
                (\/ (shown = <<>> /\ reads = 0)
                 \/ (shown # <<>> /\ reads = 1 /\ Steps(shown[1], objects[1]) <= 1
                        /\ shown[2] = objects[2]))
          /\ (pc = "handle_keys") => (reads' = reads + 1)
          /\ (pc # "handle_keys" /\ pc # "flush") => (reads' = reads)
          /\ (pc # "match") => (objects' = objects)]_vars

\* C9 witness: a second frame is about to be presented, one key after the
\* first, with the player one step from where the first frame showed it.
C9_Witness ==
    /\ pc = "flush" /\ reads = 1
    /\ shown # <<>> /\ Pos(shown[1]) = <<25, 23>>
    /\ Pos(objects[1]) = <<26, 23>>
    /\ tcod.root.cells[26][23].ch = "@"

\* C10: the map of the game is, in every state, the map make_map made when
\* the game was created.
C10_MapImmutable == pc # "panic" => game = [map |-> make_map.val]

\* C10 witness: the loop has run through key events, renderings and loop
\* checks, the player has moved and the window was then found closed.
C10_Witness ==
    /\ pc = "done" /\ window_closed
    /\ Pos(objects[1]) = <<27, 22>>
    /\ tcod.root.cells[27][23].ch = "@"
    /\ game.map[27][22] = Tile_empty

\* The key codes that move the player
Directions == {"Up", "Down", "Left", "Right"}

\* C11: handling a key that is not Up, Down, Left or Right changes no game
\* state. Enter with alt flips the root console's fullscreen flag and nothing
\* else, and the loop goes on; Escape ends the loop and changes nothing else;
\* any other key, Enter without alt among them, changes nothing and the loop
\* goes on.
C11_OtherKeys ==
    [][(pc = "match" /\ key.code \notin Directions)
        => /\ UNCHANGED <<game, objects, window_closed, key, reads, shown>>
           /\ tcod'.con = tcod.con
           /\ IF key.code = "Enter" /\ key.alt
              THEN /\ tcod'.root = [tcod.root EXCEPT !.fullscreen = ~tcod.root.fullscreen]
                   /\ pc' = "while"
              ELSE /\ tcod' = tcod
                   /\ pc' = IF key.code = "Escape" THEN "done" ELSE "while"]_vars

\* C11 witness: an Enter with alt was handled after the player had moved; the
\* window is fullscreen, the player is where the frame showed it and the loop
\* is at its top.
C11_Witness ==
    /\ pc = "while" /\ key.code = "Enter" /\ key.alt
    /\ tcod.root.fullscreen
    /\ shown # <<>> /\ objects = shown /\ Pos(objects[1]) = <<26, 23>>

\* C12: after render_all the background of every map cell, in the offscreen
\* console and in the root console it was blitted to, is the dark-wall colour
\* when the tile's block_sight is true and the dark-ground colour when it is
\* false, whatever the tile's blocked flag and whether or not a glyph was drawn
\* on the cell.
C12_TintByBlockSight ==
    call.fn = "render_all" =>
        \A x \in 0 .. MAP_WIDTH - 1 : \A y \in 0 .. MAP_HEIGHT - 1 :
            LET want == IF game.map[x][y].block_sight
                        THEN COLOR_DARK_WALL ELSE COLOR_DARK_GROUND
            IN  /\ tcod.con.cells[x][y].bg = want
                /\ tcod.root.cells[x][y].bg = want

\* C12 witness: a frame was rendered in which a blocked tile that does not block
\* sight carries a glyph and the ground tint, and a tile that blocks sight
\* without being blocked carries the wall tint.
C12_Witness ==
    /\ call.fn = "render_all"
    /\ \E p \in Patch :
        /\ game.map[p[1]][p[2]] = [blocked |-> TRUE, block_sight |-> FALSE]
        /\ Pos(objects[1]) = p
        /\ tcod.root.cells[p[1]][p[2]].ch = "@"
        /\ tcod.root.cells[p[1]][p[2]].bg = COLOR_DARK_GROUND
    /\ \E q \in Patch :
        /\ game.map[q[1]][q[2]] = [blocked |-> FALSE, block_sight |-> TRUE]
        /\ tcod.root.cells[q[1]][q[2]].bg = COLOR_DARK_WALL

\* C13: a tile lookup outside the map, a negative x or y included, faults:
\* move_by panics exactly when its destination (x+dx, y+dy) is not a cell of
\* the map, the object is then left where it was, and no tile of another cell
\* decides the move.
C13_TileAtFaults ==
    call.fn = "move_by" =>
        /\ call.panic <=> ~DestInBounds(before, call)
        /\ call.panic => (pc = "panic" /\ objects[1] = before)
        /\ \A d \in Deltas :
            tile_at(game, before.x + d[1], before.y + d[2]).panic
                <=> ~InBounds(game.map, before.x + d[1], before.y + d[2])

\* C13 witness: on the generated map an object in column 0 was moved left, to
\* x = -1, and the call panicked.
C13_Witness ==
    /\ call.fn = "move_by" /\ call.panic /\ pc = "panic"
    /\ game.map = make_map.val
    /\ before.x = 0 /\ call.a = -1 /\ before.x + call.a < 0

\* The map m with the cells of column or row `at` between lo and hi, both
\* included, set to empty and every other cell as it was
Tunnelled(m, horizontal, lo, hi, at) ==
    [x \in DOMAIN m |->
        [y \in DOMAIN m[x] |->
            IF horizontal
            THEN IF y = at /\ lo <= x /\ x <= hi THEN Tile_empty ELSE m[x][y]
            ELSE IF x = at /\ lo <= y /\ y <= hi THEN Tile_empty ELSE m[x][y]]]

\* C14: create_h_tunnel(map, x1, x2, y) that stays inside the map sets to empty
\* exactly the cells (x, y) with min(x1,x2) <= x <= max(x1,x2), both endpoints
\* included and one tile wide, and leaves every other cell as it was;
\* create_v_tunnel does the same along column x; cells that were already
\* empty stay empty.
C14_TunnelCells ==
    [][/\ (call'.fn = "create_h_tunnel" /\ InBounds(game.map, call'.a, call'.c)
            /\ InBounds(game.map, call'.b, call'.c))
            => (~call'.panic
                /\ game'.map = Tunnelled(game.map, TRUE, Min(call'.a, call'.b),
                                         Max(call'.a, call'.b), call'.c))
       /\ (call'.fn = "create_v_tunnel" /\ InBounds(game.map, call'.c, call'.a)
            /\ InBounds(game.map, call'.c, call'.b))
            => (~call'.panic
                /\ game'.map = Tunnelled(game.map, FALSE, Min(call'.a, call'.b),
                                         Max(call'.a, call'.b), call'.c))]_vars

\* C14 witness: a vertical tunnel was carved over a whole column, both
\* endpoints are empty and a cell beside the column is still a wall.
C14_Witness ==
    /\ pc = "carved" /\ call.fn = "create_v_tunnel" /\ ~call.panic
    /\ call.a # call.b
    /\ game.map[call.c][call.a] = Tile_empty
    /\ game.map[call.c][call.b] = Tile_empty
    /\ \E x \in DOMAIN game.map : x # call.c /\ game.map[x][call.a] = Tile_wall

\* The delta handle_keys passes to move_by for a directional key
Delta(code) ==
    CASE code = "Up" -> <<0, -1>>
      [] code = "Down" -> <<0, 1>>
      [] code = "Left" -> <<-1, 0>>
      [] code = "Right" -> <<1, 0>>

\* C15: only the tile stops a move. Handling a directional key puts the
\* player on the destination cell when that cell's tile is not blocked and
\* leaves it in place when it is, wherever the second entity stands, the
\* destination being the second entity's own cell included; the second entity
\* is not moved. (That the two entities can share the cell (55, 23) is the
\* reachable state C15_Witness.)
C15_TileOnlyCollision ==
    [][(pc = "match" /\ key.code \in Directions)
        => LET d == Delta(key.code)
               x == objects[1].x + d[1]
               y == objects[1].y + d[2]
           IN  /\ InBounds(game.map, x, y)
               /\ Pos(objects'[1]) = IF game.map[x][y].blocked
                                     THEN Pos(objects[1]) ELSE <<x, y>>
               /\ objects'[2] = objects[2]]_vars

\* C15 witness: directional keys have brought the player onto the cell of the
\* second entity, (55, 23), and the frame shown had them one cell apart.
C15_Witness ==
    /\ pc = "while" /\ key.code = "Right"
    /\ Pos(objects[1]) = <<55, 23>> /\ Pos(objects[2]) = <<55, 23>>
    /\ Pos(shown[1]) = <<54, 23>>

\* The glyph render_all leaves on cell (x, y): that of the last object of the
\* list standing there, a blank when none does
RECURSIVE GlyphFrom(_, _, _, _)
GlyphFrom(objs, i, x, y) ==
    IF i = 0 THEN " "
    ELSE IF Pos(objs[i]) = <<x, y>> THEN objs[i].char
    ELSE GlyphFrom(objs, i - 1, x, y)

GlyphAt(objs, x, y) == GlyphFrom(objs, Len(objs), x, y)

\* C16 as stated: the frame presented shows every entity's own glyph at that
\* entity's cell, and a blank on every cell where no entity stands.
C16_Original ==
    pc = "handle_keys" =>
        /\ \A i \in DOMAIN objects :
                tcod.root.cells[objects[i].x][objects[i].y].ch = objects[i].char
        /\ \A x \in DOMAIN tcod.root.cells : \A y \in DOMAIN tcod.root.cells[x] :
                (\A i \in DOMAIN objects : Pos(objects[i]) # <<x, y>>)
                    => tcod.root.cells[x][y].ch = " "

\* C16: the frame presented shows, on every cell where an entity stands, the
\* glyph of the last entity of the list standing there (each entity's own
\* glyph unless a later entity shares its cell), and a blank on every cell
\* where no entity stands: no glyph of an earlier position is left.
C16_FrameGlyphs ==
    pc = "handle_keys" =>
        \A x \in DOMAIN tcod.root.cells : \A y \in DOMAIN tcod.root.cells[x] :
            tcod.root.cells[x][y].ch = GlyphAt(objects, x, y)

\* C16 witness: a frame was presented with the player on the second entity's
\* cell; the cell shows 'X' and the player's start cell is blank again.
C16_Witness ==
    /\ pc = "handle_keys" /\ shown = objects
    /\ Pos(objects[1]) = <<55, 23>> /\ Pos(objects[2]) = <<55, 23>>
    /\ tcod.root.cells[55][23].ch = "X"
    /\ tcod.root.cells[25][23].ch = " "

\* C17: in every state reached from the initial placement, whatever keys were
\* pressed, every entity stands on a cell of the map whose tile is not
\* blocked, and the second entity is still the 'X' at (55, 23).
C17_OnOpenTiles ==
    /\ \A i \in DOMAIN objects :
        /\ InBounds(game.map, objects[i].x, objects[i].y)
        /\ ~game.map[objects[i].x][objects[i].y].blocked
    /\ Len(objects) = 2
    /\ objects[2] = Object_new(55, 23, "X", YELLOW)

\* C17 witness: the player has walked to the corner (21, 16) of the first room
\* and an Up key towards the wall above it has left it there.
C17_Witness ==
    /\ pc = "while" /\ key.code = "Up"
    /\ Pos(objects[1]) = <<21, 16>> /\ Pos(shown[1]) = <<21, 16>>
    /\ game.map[21][15].blocked /\ game.map[20][16].blocked
    /\ Pos(objects[2]) = <<55, 23>>

\* C18: in every state of the loop the four candidate cells (x+dx, y+dy) that
\* a directional key can pass to tile_at for the player satisfy
\* 0 <= x+dx < MAP_WIDTH and 0 <= y+dy < MAP_HEIGHT, and no tile lookup has
\* gone out of bounds: the program has not panicked.
C18_LookupInBounds ==
    /\ pc # "panic"
    /\ \A d \in Deltas :
        LET x == objects[1].x + d[1]
            y == objects[1].y + d[2]
        IN  /\ 0 <= x /\ x < MAP_WIDTH
            /\ 0 <= y /\ y < MAP_HEIGHT
            /\ ~tile_at(game, x, y).panic

\* C18 witness: the player stands on the last row of the first room and the
\* Down key just read will look up the wall tile below it, (25, 30).
C18_Witness ==
    /\ pc = "match" /\ key.code = "Down"
    /\ Pos(objects[1]) = <<25, 29>>
    /\ tile_at(game, 25, 30) = Ok(Tile_wall)

\* The cells of the map m whose tile is not blocked
OpenCells(m) == {c \in (DOMAIN m) \X (0 .. MAP_HEIGHT - 1) : ~m[c[1]][c[2]].blocked}

\* The cells one directional key away from a cell of S on the map of g: where
\* move_by leaves an object that stood on the cell
MoveStep(g, S) ==
    S \cup {Pos(move_by(Object_new(c[1], c[2], "@", WHITE), g, d[1], d[2]).val) :
                c \in {e \in S : \A d \in Deltas :
                                    ~move_by(Object_new(e[1], e[2], "@", WHITE),
                                             g, d[1], d[2]).panic},
                d \in Deltas}

\* The least set of cells that holds S and is closed under directional moves
RECURSIVE MoveClosure(_, _)
MoveClosure(g, S) ==
    LET T == MoveStep(g, S)
    IN  IF T = S THEN S ELSE MoveClosure(g, T)

\* The cells the player can be brought to from its start (25, 23)
PlayerReach == MoveClosure(Game_new.val, {<<25, 23>>})

\* The unblocked tiles of the generated map
OpenTiles == OpenCells(Game_new.val.map)

\* C19: the cells the player can reach from (25, 23) with the four
\* directional keys are exactly the unblocked tiles of the generated map:
\* the closure of the start cell under move_by equals the set of unblocked
\* tiles of the map the loop runs on, and the player of the running loop is
\* always on one of them.
C19_Connected ==
    /\ PlayerReach = OpenTiles
    /\ game = Game_new.val
    /\ Pos(objects[1]) \in PlayerReach

\* C19 witness: the player has been walked from the first room through the
\* tunnel to the far corner (59, 29) of the second room.
C19_Witness ==
    /\ Pos(objects[1]) = <<59, 29>>
    /\ <<59, 29>> \in OpenTiles
    /\ pc = "handle_keys"

====
